---- MODULE Spec2Model ----
(***************************************************************************)
(* GitHub Project Manager (src/github-manager/main.cpp): one session of    *)
(* the command-line client.  ProjectManager::run authenticates, then       *)
(* serves menu choices; each choice calls one GitHubAPI method, and every  *)
(* GitHubAPI method talks to the remote through GitHubAPI::makeRequest.    *)
(*                                                                         *)
(* The remote repository and the transport are the environment: every      *)
(* request either suffers a transport failure (empty response) or is       *)
(* answered by the remote according to its state.                          *)
(***************************************************************************)
EXTENDS Integers, Sequences, FiniteSets, TLC

\* ------------------------------------------------------------------ bounds

\* Largest number of directory entries (files, directories, symlinks) one
\* walked tree holds.
MaxEntries == 4

\* Longest byte sequence, over SampleBytes, given to the codec.
MaxBytes == 4

\* ------------------------------------------------------- strings and paths

\* The preferred separator of std::filesystem::path on the build platform.
Seps == {"/", "\\"}

EmptyStr == ""

\* Commit messages the user types at the prompt.
Messages == {"init", "fix"}

RECURSIVE JoinWith(_, _)
\* fs::path::string(): the segments joined with the platform separator.
JoinWith(segs, s) ==
    IF Len(segs) = 0 THEN EmptyStr
    ELSE IF Len(segs) = 1 THEN segs[1]
    ELSE segs[1] \o s \o JoinWith(Tail(segs), s)

\* filename keeping the directory part of the path.
filenameKeepsDirectory(segs) == JoinWith(segs, "/")

\* fs::path::filename(): the last segment of the path.
filename(segs) == IF Len(segs) = 0 THEN EmptyStr ELSE segs[Len(segs)]

\* ------------------------------------------------------------------ base64

B64Chars ==
    << "A","B","C","D","E","F","G","H","I","J","K","L","M","N","O","P",
       "Q","R","S","T","U","V","W","X","Y","Z","a","b","c","d","e","f",
       "g","h","i","j","k","l","m","n","o","p","q","r","s","t","u","v",
       "w","x","y","z","0","1","2","3","4","5","6","7","8","9","+","/" >>

B64(i) == B64Chars[i + 1]

\* What BIO_f_base64 writes for the bytes: each three bytes become four
\* characters of the alphabet, and a last group of one or two bytes is
\* padded with '=' to four characters.
Base64Groups(input) ==
    LET n == Len(input)
        byte(i) == IF i <= n THEN input[i] ELSE 0
    IN  [k \in 1..(4 * ((n + 2) \div 3)) |->
            LET g == (k - 1) \div 4
                b1 == byte(3 * g + 1)
                b2 == byte(3 * g + 2)
                b3 == byte(3 * g + 3)
            IN  CASE (k - 1) % 4 = 0 -> B64(b1 \div 4)
                  [] (k - 1) % 4 = 1 -> B64((b1 % 4) * 16 + b2 \div 16)
                  [] (k - 1) % 4 = 2 ->
                        IF 3 * g + 2 > n THEN "="
                        ELSE B64((b2 % 16) * 4 + b3 \div 64)
                  [] OTHER ->
                        IF 3 * g + 3 > n THEN "=" ELSE B64(b3 % 64)]

\* The characters base64_encode would return without BIO_FLAGS_BASE64_NO_NL:
\* the filter ends its output with a newline.
base64_charsWithNewline(input) ==
    IF Len(input) = 0 THEN << >> ELSE Base64Groups(input) \o << "\n" >>

\* The characters of the string base64_encode returns: with
\* BIO_FLAGS_BASE64_NO_NL the filter writes the groups and no line breaks.
base64_chars(input) == Base64Groups(input)

RECURSIVE Concat(_)
\* std::string(bufferPtr->data, bufferPtr->length): the characters as one string.
Concat(chars) ==
    IF Len(chars) = 0 THEN EmptyStr ELSE Head(chars) \o Concat(Tail(chars))

\* base64_encode: the encoded text of the bytes.
base64_encode(input) == Concat(base64_chars(input))

\* The index of a character in the base64 alphabet.
B64Index(ch) == CHOOSE i \in 0..63 : B64Chars[i + 1] = ch

\* The text is well-formed base64 without line breaks: whole groups of four,
\* alphabet characters only, '=' only as the last or the last two characters.
B64WellFormed(chars) ==
    /\ Len(chars) % 4 = 0
    /\ \A i \in 1..Len(chars) :
          \/ \E j \in 1..64 : B64Chars[j] = chars[i]
          \/ /\ chars[i] = "="
             /\ i >= Len(chars) - 1
             /\ chars[Len(chars)] = "="

\* The bytes of well-formed base64 text: each four characters give three
\* bytes, less one for each '=' at the end.
B64DecodeGroups(chars) ==
    LET n == Len(chars)
        pad == IF n = 0 THEN 0
               ELSE IF chars[n - 1] = "=" THEN 2
               ELSE IF chars[n] = "=" THEN 1 ELSE 0
        v(i) == IF chars[i] = "=" THEN 0 ELSE B64Index(chars[i])
    IN  [m \in 1..(3 * (n \div 4) - pad) |->
            LET g == (m - 1) \div 3 IN
            CASE (m - 1) % 3 = 0 -> v(4 * g + 1) * 4 + v(4 * g + 2) \div 16
              [] (m - 1) % 3 = 1 ->
                    (v(4 * g + 2) % 16) * 16 + v(4 * g + 3) \div 4
              [] OTHER -> (v(4 * g + 3) % 4) * 64 + v(4 * g + 4)]

\* ContentCodec.decode: the bytes of the text, or MalformedEncoding.
base64_decode(chars) ==
    IF B64WellFormed(chars)
    THEN [ok |-> TRUE, bytes |-> B64DecodeGroups(chars)]
    ELSE [ok |-> FALSE, bytes |-> << >>]

\* -------------------------------------------------------- local file system

\* The directory entries a walked tree can hold, in the order the recursive
\* iterator meets them.  rel is the path of the entry relative to the walked
\* root; kind is what the entry itself is (symlink_status); to is what
\* status(), which follows symlinks, finds; resolved is the path relative to
\* the root with symlinks resolved (weakly_canonical).  "link" points to a
\* directory, "out.lnk" to the regular file x.txt next to the root.
Universe ==
    << [rel |-> <<"a.txt">>,        kind |-> "file",    to |-> "file",
        resolved |-> <<"a.txt">>],
       [rel |-> <<"link">>,         kind |-> "symlink", to |-> "dir",
        resolved |-> <<"sub">>],
       [rel |-> <<"out.lnk">>,      kind |-> "symlink", to |-> "file",
        resolved |-> <<"..", "x.txt">>],
       [rel |-> <<"sub">>,          kind |-> "dir",     to |-> "dir",
        resolved |-> <<"sub">>],
       [rel |-> <<"sub", "b.bin">>, kind |-> "file",    to |-> "file",
        resolved |-> <<"sub", "b.bin">>] >>

\* The bytes of a local file, by file name.
FileBytes(name) ==
    CASE name = "a.txt" -> <<104, 105>>
      [] name = "b.bin" -> <<0, 255, 16, 131>>
      [] name = "out.lnk" -> <<120>>
      [] OTHER          -> <<>>

\* One entry of a tree: a position of Universe and whether the file can be
\* opened for reading (always TRUE for entries that lead to no file).
EntrySet ==
    { [u |-> i, readable |-> b] : i \in 1..Len(Universe), b \in BOOLEAN }

EntryOk(e) == Universe[e.u].to = "file" \/ e.readable

\* A tree as the iterator enumerates it: entries in Universe order, each at
\* most once, a file below "sub" only together with the directory "sub".
IsTree(t) ==
    /\ \A i \in 1..Len(t) : EntryOk(t[i])
    /\ \A i, j \in 1..Len(t) : i < j => t[i].u < t[j].u
    /\ \A i \in 1..Len(t) :
          Len(Universe[t[i].u].rel) > 1 =>
              \E j \in 1..Len(t) : Universe[t[j].u].rel = <<"sub">>

Trees ==
    { t \in UNION { [1..n -> EntrySet] : n \in 0..MaxEntries } : IsTree(t) }

\* What the user can type as the directory of "upload entire project".
Roots == {"dir", "missing", "notdir"}

\* What the user can type as the file of "upload single file": the path and
\* whether std::ifstream can open it.
LocalFiles ==
    { [segs |-> <<"proj", "a.txt">>,        readable |-> TRUE],
      [segs |-> <<"other", "a.txt">>,       readable |-> TRUE],
      [segs |-> <<"proj", "sub", "b.bin">>, readable |-> TRUE],
      [segs |-> <<"proj", "gone.txt">>,     readable |-> FALSE] }

\* is_open with the check of the stream left out.
is_openUnchecked(f) == TRUE

\* std::ifstream::is_open() after opening the file for reading.
is_open(f) == f.readable

\* ------------------------------------------------------------ JSON values

\* The members the client reads or writes in a JSON document; a document is
\* kept as the set of its members and the values of the string members.
NoBody == [members |-> {}, message |-> EmptyStr, content |-> EmptyStr, sha |-> EmptyStr]

\* UploadPayload with a message of its own in place of the one supplied.
UploadPayloadFixedMessage(commitMessage, encodedContent) ==
    [members |-> {"message", "content"}, message |-> "update",
     content |-> encodedContent, sha |-> EmptyStr]

\* The payload uploadFile / uploadFileWithPath build: {message, content}.
UploadPayload(commitMessage, encodedContent) ==
    [members |-> {"message", "content"}, message |-> commitMessage,
     content |-> encodedContent, sha |-> EmptyStr]

\* The payload createRepository builds: {name, description, private,
\* auto_init}.
CreatePayload ==
    [members |-> {"name", "description", "private", "auto_init"},
     message |-> EmptyStr, content |-> EmptyStr, sha |-> EmptyStr]

\* The payload deleteFile builds: {message, sha}.
DeletePayload(commitMessage, s) ==
    [members |-> {"message", "sha"}, message |-> commitMessage,
     content |-> EmptyStr, sha |-> s]

\* A response as makeRequest returns it: the text received.  kind "empty" is
\* the empty string left by a transport failure, kind "text" the start of a
\* response cut off by one (no JSON document), kind "object" a JSON object.
NoResponse == [kind |-> "empty", members |-> {}, sha |-> EmptyStr]

CutResponse == [kind |-> "text", members |-> {}, sha |-> EmptyStr]

JsonObject(ms, s) == [kind |-> "object", members |-> ms, sha |-> s]

\* A JSON array of repository objects, as GET /user/repos answers.
JsonArray == [kind |-> "array", members |-> {}, sha |-> EmptyStr]

\* Json::parseFromStream: neither the empty string nor a cut-off text is a
\* JSON document.
parseFromStream(response) == response.kind \in {"object", "array"}

\* Json::Value::isMember.
isMember(response, name) == name \in response.members

\* asStringSha reading a member the response does not have.
asStringShaOfNull(response) == EmptyStr

\* responseJson["sha"].asString(): a missing member reads as null, and
\* null.asString() is the empty string.
asStringSha(response) ==
    IF isMember(response, "sha") THEN response.sha ELSE EmptyStr

\* ------------------------------------------------------------- the remote

NoSha == EmptyStr

Shas == {"sha1", "sha2"}

\* The content hash the remote assigns to a new version of a path.
NewSha(old) == IF old = "sha1" THEN "sha2" ELSE "sha1"

\* Every remote path a request of the session can name.
RemotePaths ==
    { JoinWith(Universe[i].rel, s) : i \in 1..Len(Universe), s \in Seps }
    \cup { JoinWith(Universe[i].resolved, s) : i \in 1..Len(Universe), s \in Seps }
    \cup { filename(f.segs) : f \in LocalFiles }

VARIABLES
    pc,            \* where the session is: "start", "menu", "walk", "delete", "done",
                   \* "halted", or "blocked" inside a makeRequest that never returns
    exitCode,      \* the exit status of the process once pc = "halted"
    sep,           \* the platform's path separator
    credsValid,    \* whether the remote accepts the token
    remote,        \* the remote repository: path -> content hash, NoSha if absent
    probe,         \* outcome of the getUser call of initialize
    op,            \* the menu operation in progress or last run, with its inputs
    calls,         \* the makeRequest calls of that operation, in order
    result,        \* what the operation returned: "none", "true", "false"
    tree,          \* uploadDirectory: the entries the iterator enumerates
    idx,           \* uploadDirectory: the next entry of tree
    successCount,  \* uploadDirectory: successCount
    failCount,     \* uploadDirectory: failCount
    out,           \* uploadDirectory: the "Uploading: <path>..." lines printed
    sha,           \* deleteFile: the local variable sha
    cancelRequested, \* the user has asked to cancel the running uploadDirectory
    codecPc,       \* the codec run: "off", "in", "encoded", "decoded"
    codecIn,       \* the bytes given to base64_encode
    codecOut,      \* the characters base64_encode returned
    codecBack,     \* what decoding codecOut gave
    transport,     \* libcurl's global state: "none", "up" (curl_global_init
                   \* done), "down" (curl_global_cleanup done)
    probeReturned  \* what getUserInfo returned to initialize

vars == << pc, exitCode, sep, credsValid, remote, probe, op, calls, result,
           tree, idx, successCount, failCount, out, sha, cancelRequested,
           codecPc, codecIn, codecOut, codecBack, transport, probeReturned >>

codecVars == << codecPc, codecIn, codecOut, codecBack >>

\* What no step of a session changes: the platform, the token, the codec run.
envVars == << sep, credsValid, codecVars >>

walkVars == << tree, idx, successCount, failCount, out >>

\* The repository names the user can type; "old-repo" exists at the remote.
RepoNames == {"new-repo", "old-repo"}

\* The answer of the remote to a request that reached it.
RemoteAnswer(req) ==
    IF ~credsValid THEN
        [outcome |-> "Rejected", response |-> JsonObject({"message"}, EmptyStr)]
    ELSE IF req.endpoint = "user" THEN
        [outcome |-> "Ok", response |-> JsonObject({"login", "name", "id"}, EmptyStr)]
    ELSE IF req.endpoint = "repos" /\ req.method = "GET" THEN
        [outcome |-> "Ok", response |-> JsonArray]
    ELSE IF req.endpoint = "repos" THEN
        IF "name" \in req.body.members /\ req.path # "old-repo"
        THEN [outcome |-> "Ok", response |-> JsonObject({"id", "name", "html_url"}, EmptyStr)]
        ELSE [outcome |-> "Rejected", response |-> JsonObject({"message", "errors"}, EmptyStr)]
    ELSE IF req.method = "GET" THEN
        IF remote[req.path] = NoSha
        THEN [outcome |-> "NotFound", response |-> JsonObject({"message"}, EmptyStr)]
        ELSE [outcome |-> "Ok",
              response |-> JsonObject({"sha", "name", "path"}, remote[req.path])]
    ELSE IF req.method = "PUT" THEN
        IF \/ ~({"message", "content"} \subseteq req.body.members)
           \/ /\ remote[req.path] # NoSha
              /\ ~("sha" \in req.body.members /\ req.body.sha = remote[req.path])
        THEN [outcome |-> "Rejected", response |-> JsonObject({"message"}, EmptyStr)]
        ELSE [outcome |-> "Ok", response |-> JsonObject({"content", "commit"}, EmptyStr)]
    ELSE \* DELETE
        IF remote[req.path] = NoSha
        THEN [outcome |-> "NotFound", response |-> JsonObject({"message"}, EmptyStr)]
        ELSE IF ~({"message", "sha"} \subseteq req.body.members
                  /\ req.body.sha = remote[req.path])
        THEN [outcome |-> "Rejected", response |-> JsonObject({"message"}, EmptyStr)]
        ELSE [outcome |-> "Ok", response |-> JsonObject({"content", "commit"}, EmptyStr)]

\* The remote repository after it answered the request.
RemoteAfter(req) ==
    IF req.endpoint = "contents" /\ RemoteAnswer(req).outcome = "Ok" THEN
        IF req.method = "PUT"
        THEN [remote EXCEPT ![req.path] = NewSha(remote[req.path])]
        ELSE IF req.method = "DELETE"
        THEN [remote EXCEPT ![req.path] = NoSha]
        ELSE remote
    ELSE remote

\* ------------------------------------------------------------ makeRequest

\* What makeRequest puts on the wire: the data becomes the request body
\* (CURLOPT_POSTFIELDS) for POST and PUT only.
Transmitted(method, endpoint, path, data) ==
    [method |-> method, endpoint |-> endpoint, path |-> path,
     body |-> IF method \in {"POST", "PUT"} THEN data ELSE NoBody]

\* One makeRequest call: its arguments, the request sent, the state of the
\* path at the remote when it was sent, and the response returned.  net is
\* the transport: "ok"; "fail" (curl_easy_perform reports an error and the
\* response stays empty); "partial" (the request was served, the transfer
\* broke in the middle of the response and the text received so far is
\* returned); "hang" (the remote never answers: no CURLOPT_TIMEOUT is set, so
\* curl_easy_perform never returns and neither does makeRequest).  freed:
\* curl_slist_free_all and curl_easy_cleanup follow curl_easy_perform on the
\* one path through the function, so they have run when it has returned.
makeRequest(method, endpoint, path, data, net) ==
    LET req == Transmitted(method, endpoint, path, data)
        ans == CASE net = "ok"      -> RemoteAnswer(req)
                 [] net = "fail"    -> [outcome |-> "TransportError", response |-> NoResponse]
                 [] net = "partial" -> [outcome |-> "TransportError", response |-> CutResponse]
                 [] OTHER           -> [outcome |-> "Hang", response |-> NoResponse]
    IN  [method |-> method, endpoint |-> endpoint, path |-> path, data |-> data,
         body |-> req.body,
         prior |-> IF endpoint = "contents" THEN remote[path] ELSE NoSha,
         outcome |-> ans.outcome, response |-> ans.response,
         freed |-> ans.outcome # "Hang"]

\* The remote after the call c made over transport net.
RemoteNext(c, net) ==
    IF net \in {"ok", "partial"}
    THEN RemoteAfter(Transmitted(c.method, c.endpoint, c.path, c.data))
    ELSE remote

Nets == {"ok", "fail", "partial", "hang"}

\* The call c is one that never returns.
Hangs(c) == c.outcome = "Hang"

\* -------------------------------------------------------------- operations

NoOp == [kind |-> "none", msg |-> EmptyStr, target |-> EmptyStr,
         name |-> EmptyStr, readable |-> TRUE]

Init ==
    /\ pc = "start"
    /\ exitCode = 0
    /\ sep \in Seps
    /\ credsValid \in BOOLEAN
    /\ remote = [p \in RemotePaths |-> NoSha]
    /\ probe = "none"
    /\ op = NoOp
    /\ calls = << >>
    /\ result = "none"
    /\ tree = << >>
    /\ idx = 1
    /\ successCount = 0
    /\ failCount = 0
    /\ out = << >>
    /\ sha = EmptyStr
    /\ cancelRequested = FALSE
    /\ transport = "none"
    /\ probeReturned = "none"
    /\ codecPc = "off"
    /\ codecIn = << >>
    /\ codecOut = << >>
    /\ codecBack = [ok |-> TRUE, bytes |-> << >>]

\* A bool as the model records it.
Bool(b) == IF b THEN "true" ELSE "false"

\* GitHubAPI::getUserInfo on the response of GET /user.
getUserInfo(response) == parseFromStream(response)

\* initialize going on to the menu when the probe returned false.
initializeNoExit ==
    /\ pc = "start"
    /\ transport' = "up"
    /\ \E net \in Nets :
        LET c == makeRequest("GET", "user", EmptyStr, NoBody, net) IN
        /\ calls' = << c >>
        /\ remote' = RemoteNext(c, net)
        /\ op' = [NoOp EXCEPT !.kind = "initialize"]
        /\ IF Hangs(c)
           THEN /\ pc' = "blocked" /\ UNCHANGED << probe, probeReturned, exitCode, result >>
           ELSE /\ probe' = c.outcome
                /\ probeReturned' = Bool(getUserInfo(c.response))
                /\ pc' = "done" /\ exitCode' = exitCode
                /\ result' = Bool(getUserInfo(c.response))
    /\ UNCHANGED << envVars, cancelRequested, walkVars, sha >>

\* ProjectManager::initialize: build the client (its constructor calls
\* curl_global_init), probe the credentials with getUserInfo, exit(1) when it
\* returns false.  exit does not unwind the stack: the ProjectManager in main
\* is not destroyed, so ~GitHubAPI and curl_global_cleanup do not run.
initialize ==
    /\ pc = "start"
    /\ transport' = "up"
    /\ \E net \in Nets :
        LET c == makeRequest("GET", "user", EmptyStr, NoBody, net) IN
        /\ calls' = << c >>
        /\ remote' = RemoteNext(c, net)
        /\ op' = [NoOp EXCEPT !.kind = "initialize"]
        /\ IF Hangs(c)
           THEN /\ pc' = "blocked" /\ UNCHANGED << probe, probeReturned, exitCode, result >>
           ELSE /\ probe' = c.outcome
                /\ probeReturned' = Bool(getUserInfo(c.response))
                /\ IF getUserInfo(c.response)
                   THEN /\ pc' = "done" /\ exitCode' = exitCode /\ result' = "true"
                   ELSE /\ pc' = "halted" /\ exitCode' = 1 /\ result' = "false"
    /\ UNCHANGED << envVars, cancelRequested, walkVars, sha >>

\* uploadConfirmed looking only at whether the response parses.
uploadConfirmedParseOnly(response) == parseFromStream(response)

\* The PUT response confirms the upload: it parses and has a "content" member.
uploadConfirmed(response) ==
    parseFromStream(response) /\ isMember(response, "content")

\* uploadFileWithPath sending the PUT a second time when the first one was
\* not confirmed.
uploadFileWithPathRetry(file, bytes, remotePath, commitMessage, net) ==
    IF ~is_open(file) THEN [calls |-> << >>, ok |-> FALSE]
    ELSE LET c == makeRequest("PUT", "contents", remotePath,
                              UploadPayload(commitMessage, base64_encode(bytes)), net)
         IN  IF parseFromStream(c.response) /\ isMember(c.response, "content")
             THEN [calls |-> << c >>, ok |-> TRUE]
             ELSE [calls |-> << c, c >>, ok |-> FALSE]

\* The body shared by uploadFile and uploadFileWithPath once the remote path
\* is known: open the file, encode it, PUT {message, content}, inspect the
\* response.  Gives the makeRequest calls made and the value returned.
uploadFileWithPath(file, bytes, remotePath, commitMessage, net) ==
    IF ~is_open(file) THEN [calls |-> << >>, ok |-> FALSE]
    ELSE LET c == makeRequest("PUT", "contents", remotePath,
                              UploadPayload(commitMessage, base64_encode(bytes)), net)
         IN  [calls |-> << c >>, ok |-> uploadConfirmed(c.response)]

\* RemoteNext over the calls of one upload attempt (none or one).
RemoteAfterCalls(cs, net) ==
    IF Len(cs) = 0 THEN remote ELSE RemoteNext(cs[1], net)

\* The upload attempt that made the calls cs never returns.
Hung(cs) == Len(cs) > 0 /\ Hangs(cs[1])

\* The top of the do-while of ProjectManager::run: the operation has returned,
\* its locals are gone, the menu is shown and the next choice is read.
showMenu ==
    /\ pc = "done"
    /\ pc' = "menu"
    /\ op' = NoOp
    /\ calls' = << >> /\ result' = "none"
    /\ tree' = << >> /\ idx' = 1 /\ successCount' = 0 /\ failCount' = 0
    /\ out' = << >> /\ sha' = EmptyStr
    /\ cancelRequested' = FALSE
    /\ UNCHANGED << exitCode, envVars, transport, remote, probe, probeReturned >>

\* The POST response confirms the creation: it parses and has an "id" member.
createConfirmed(response) ==
    parseFromStream(response) /\ isMember(response, "id")

\* Menu choice 1, GitHubAPI::createRepository: POST {name, description,
\* private, auto_init} to /user/repos, inspect the response.  run ignores
\* the value returned.
createRepository ==
    /\ pc = "menu"
    /\ \E repoName \in RepoNames, net \in Nets :
        LET c == makeRequest("POST", "repos", repoName, CreatePayload, net) IN
        /\ op' = [NoOp EXCEPT !.kind = "createRepository", !.target = repoName]
        /\ calls' = << c >>
        /\ IF Hangs(c)
           THEN /\ pc' = "blocked" /\ result' = result
           ELSE /\ pc' = "done" /\ result' = Bool(createConfirmed(c.response))
    /\ UNCHANGED << exitCode, envVars, transport, cancelRequested, remote, probe, probeReturned, walkVars, sha >>

\* Menu choice 2, GitHubAPI::uploadFile: the remote path is the file name.
uploadFile ==
    /\ pc = "menu"
    /\ \E f \in LocalFiles, msg \in Messages, net \in Nets :
        LET fileName == filename(f.segs)
            r == uploadFileWithPath(f, FileBytes(fileName), fileName, msg, net)
        IN  /\ op' = [kind |-> "uploadFile", msg |-> msg,
                      target |-> JoinWith(f.segs, sep), name |-> fileName,
                      readable |-> f.readable]
            /\ calls' = r.calls
            /\ remote' = RemoteAfterCalls(r.calls, net)
            /\ IF Hung(r.calls)
               THEN /\ pc' = "blocked" /\ result' = result
               ELSE /\ pc' = "done" /\ result' = Bool(r.ok)
    /\ UNCHANGED << exitCode, envVars, transport, cancelRequested, probe, probeReturned, walkVars, sha >>

\* Menu choice 3, GitHubAPI::uploadDirectory up to the construction of the
\* recursive_directory_iterator.  The constructor throws filesystem_error
\* when dirPath does not exist or is no directory; nothing catches it, so
\* std::terminate aborts the process (SIGABRT, status 134).
uploadDirectoryBegin ==
    /\ pc = "menu"
    /\ \E root \in Roots, t \in Trees, msg \in Messages :
        /\ op' = [kind |-> "uploadDirectory", msg |-> msg, target |-> root,
                  name |-> EmptyStr, readable |-> TRUE]
        /\ IF root = "dir"
           THEN /\ tree' = t /\ pc' = "walk" /\ exitCode' = exitCode
           ELSE /\ t = << >> /\ tree' = << >>
                /\ pc' = "halted" /\ exitCode' = 134
    /\ UNCHANGED << envVars, transport, cancelRequested, remote, probe,
                    probeReturned, calls, result, idx, successCount, failCount,
                    out, sha >>

\* entry.is_regular_file(): is_regular_file(status()), and status() follows
\* symlinks, so a symlink to a regular file is a regular file here.
is_regular_file(e) == Universe[e.u].to = "file"

\* fs::relative(entry.path(), dirPath).string(): both paths are made
\* weakly_canonical (symlinks resolved) before the relative path is taken.
relativePath(e) == JoinWith(Universe[e.u].resolved, sep)

\* Counted without the else branch: a failure is not counted.
CountedDropsFailure(ok) ==
    /\ successCount' = IF ok THEN successCount + 1 ELSE successCount
    /\ failCount' = failCount

\* The if/else on the value uploadFileWithPath returned.
Counted(ok) ==
    /\ successCount' = IF ok THEN successCount + 1 ELSE successCount
    /\ failCount' = IF ok THEN failCount ELSE failCount + 1

\* Advance leaving the loop at the first failure.
AdvanceStopsOnFailure(ok) == idx' = IF ok THEN idx + 1 ELSE Len(tree) + 1

\* The range-for moves on to the next entry whatever the body did.
Advance(ok) == idx' = idx + 1

\* One pass of the loop body of uploadDirectory over the entry tree[idx].
uploadDirectoryEntry ==
    /\ pc = "walk"
    /\ idx <= Len(tree)
    /\ LET e == tree[idx] IN
        IF is_regular_file(e)
        THEN \E net \in Nets :
               LET r == uploadFileWithPath(e, FileBytes(filename(Universe[e.u].rel)),
                                           relativePath(e), op.msg, net)
               IN  /\ out' = Append(out, relativePath(e))
                   /\ calls' = calls \o r.calls
                   /\ remote' = RemoteAfterCalls(r.calls, net)
                   /\ IF Hung(r.calls)
                      THEN /\ pc' = "blocked"
                           /\ UNCHANGED << successCount, failCount, idx >>
                      ELSE /\ pc' = pc
                           /\ Counted(r.ok)
                           /\ Advance(r.ok)
        ELSE /\ Advance(TRUE)
             /\ UNCHANGED << pc, out, calls, remote, successCount, failCount >>
    /\ UNCHANGED << exitCode, envVars, transport, cancelRequested, probe, probeReturned, op, result, tree, sha >>

\* The user asks to cancel the running uploadDirectory once a file has been
\* started and entries are left.  Nothing in the loop reads the request.
requestCancel ==
    /\ pc = "walk"
    /\ Len(out) >= 1
    /\ idx <= Len(tree)
    /\ ~cancelRequested
    /\ cancelRequested' = TRUE
    /\ UNCHANGED << pc, exitCode, envVars, transport, remote, probe, probeReturned, op, calls, result,
                    walkVars, sha >>

\* The end of uploadDirectory: print the counts, return failCount == 0.
uploadDirectoryEnd ==
    /\ pc = "walk"
    /\ idx > Len(tree)
    /\ result' = Bool(failCount = 0)
    /\ pc' = "done"
    /\ UNCHANGED << exitCode, envVars, transport, cancelRequested, remote, probe, probeReturned, op, calls,
                    walkVars, sha >>

\* The remote paths the user can type at "file path to delete".
DeleteTargets ==
    { JoinWith(Universe[i].rel, s) :
        i \in { j \in 1..Len(Universe) : Universe[j].kind = "file" }, s \in Seps }
    \cup { filename(f.segs) : f \in LocalFiles }

\* Menu choice 4, GitHubAPI::deleteFile up to the read of the sha: GET the
\* path, return false when the response does not parse.
deleteFileGet ==
    /\ pc = "menu"
    /\ \E path \in DeleteTargets, msg \in Messages, net \in Nets :
        LET c == makeRequest("GET", "contents", path, NoBody, net) IN
        /\ op' = [kind |-> "deleteFile", msg |-> msg, target |-> path,
                  name |-> EmptyStr, readable |-> TRUE]
        /\ calls' = << c >>
        /\ remote' = RemoteNext(c, net)
        /\ IF Hangs(c)
           THEN /\ result' = result /\ pc' = "blocked" /\ sha' = sha
           ELSE IF ~parseFromStream(c.response)
           THEN /\ result' = "false" /\ pc' = "done" /\ sha' = sha
           ELSE /\ result' = result /\ pc' = "delete"
                /\ sha' = asStringSha(c.response)
    /\ UNCHANGED << exitCode, envVars, transport, cancelRequested, probe, probeReturned, walkVars >>

\* The rest of deleteFile: DELETE with {message, sha}, then report success
\* and return true without looking at the response.
deleteFileDelete ==
    /\ pc = "delete"
    /\ \E net \in Nets :
        LET c == makeRequest("DELETE", "contents", op.target,
                             DeletePayload(op.msg, sha), net) IN
        /\ calls' = Append(calls, c)
        /\ remote' = RemoteNext(c, net)
        /\ IF Hangs(c)
           THEN /\ result' = result /\ pc' = "blocked"
           ELSE /\ result' = "true" /\ pc' = "done"
    /\ UNCHANGED << exitCode, envVars, transport, cancelRequested, probe, probeReturned, op, walkVars, sha >>

\* Menu choice 5, GitHubAPI::listRepositories: GET /user/repos and print
\* each element of the parsed response.  When the response is an object (an
\* error document) the loop runs over its member values, which are strings,
\* and repo["name"] on a string throws Json::LogicError; nothing catches
\* it, so std::terminate aborts the process (status 134).
listRepositories ==
    /\ pc = "menu"
    /\ \E net \in Nets :
        LET c == makeRequest("GET", "repos", EmptyStr, NoBody, net) IN
        /\ calls' = << c >>
        /\ IF Hangs(c)
           THEN pc' = "blocked" /\ exitCode' = exitCode
           ELSE IF parseFromStream(c.response) /\ c.response.kind = "object"
           THEN pc' = "halted" /\ exitCode' = 134
           ELSE pc' = "done" /\ exitCode' = exitCode
    /\ op' = [NoOp EXCEPT !.kind = "listRepositories"]
    /\ UNCHANGED << envVars, transport, cancelRequested, remote, probe,
                    probeReturned, result, walkVars, sha >>

\* Menu choice 6: GitHubAPI::getUserInfo, its result ignored by run.
viewUser ==
    /\ pc = "menu"
    /\ \E net \in Nets :
        LET c == makeRequest("GET", "user", EmptyStr, NoBody, net) IN
        /\ calls' = << c >>
        /\ remote' = RemoteNext(c, net)
        /\ IF Hangs(c)
           THEN /\ result' = result /\ pc' = "blocked"
           ELSE /\ result' = Bool(getUserInfo(c.response)) /\ pc' = "done"
    /\ op' = [NoOp EXCEPT !.kind = "viewUser"]
    /\ UNCHANGED << exitCode, envVars, transport, cancelRequested, probe, probeReturned, walkVars, sha >>

\* Menu choice 7: leave the loop; run returns, main returns 0 and destroys
\* the ProjectManager, whose destructor deletes api: ~GitHubAPI calls
\* curl_global_cleanup.
exitMenu ==
    /\ pc = "menu"
    /\ op' = [NoOp EXCEPT !.kind = "exit"]
    /\ pc' = "halted"
    /\ exitCode' = 0
    /\ transport' = "down"
    /\ UNCHANGED << envVars, cancelRequested, remote, probe, probeReturned,
                    calls, result, walkVars, sha >>

\* Any other number: "Invalid choice", back to the menu.
invalidChoice ==
    /\ pc = "menu"
    /\ op' = [NoOp EXCEPT !.kind = "invalid"]
    /\ pc' = "done"
    /\ UNCHANGED << exitCode, envVars, transport, cancelRequested, remote, probe, probeReturned, calls, result,
                    walkVars, sha >>

Next ==
    \/ initialize
    \/ showMenu
    \/ createRepository
    \/ uploadFile
    \/ uploadDirectoryBegin
    \/ uploadDirectoryEntry
    \/ requestCancel
    \/ uploadDirectoryEnd
    \/ deleteFileGet
    \/ deleteFileDelete
    \/ listRepositories
    \/ viewUser
    \/ exitMenu
    \/ invalidChoice

Spec == Init /\ [][Next]_vars

\* ------------------------------------------------------------ codec runs

\* The byte values the longer codec inputs are built from.
SampleBytes == {0, 16, 104, 105, 131, 255}

\* Every byte value once, in order.
AllBytes == [i \in 1..256 |-> i - 1]

\* The inputs of a codec run: the empty sequence, every single byte, every
\* sequence of up to MaxBytes sample bytes, and the sequence of all 256 values.
CodecInputs ==
    { << b >> : b \in 0..255 }
    \cup UNION { [1..n -> SampleBytes] : n \in 0..MaxBytes }
    \cup { AllBytes }

sessionVars == << pc, exitCode, sep, credsValid, remote, probe, op, calls,
                 result, tree, idx, successCount, failCount, out, sha,
                 cancelRequested, transport, probeReturned >>

\* A codec run starts with the bytes of a file read by uploadFile; no
\* session is running.
CodecInit ==
    /\ pc = "codec"
    /\ exitCode = 0
    /\ sep = "/"
    /\ credsValid = TRUE
    /\ remote = [p \in RemotePaths |-> NoSha]
    /\ probe = "none"
    /\ op = NoOp
    /\ calls = << >>
    /\ result = "none"
    /\ tree = << >>
    /\ idx = 1
    /\ successCount = 0
    /\ failCount = 0
    /\ out = << >>
    /\ sha = EmptyStr
    /\ cancelRequested = FALSE
    /\ transport = "none"
    /\ probeReturned = "none"
    /\ codecPc = "in"
    /\ codecIn \in CodecInputs
    /\ codecOut = << >>
    /\ codecBack = [ok |-> TRUE, bytes |-> << >>]

\* base64_encode applied to the input.
encodeStep ==
    /\ codecPc = "in"
    /\ codecOut' = base64_chars(codecIn)
    /\ codecPc' = "encoded"
    /\ UNCHANGED << sessionVars, codecIn, codecBack >>

\* The receiver of the content decodes it.
decodeStep ==
    /\ codecPc = "encoded"
    /\ codecBack' = base64_decode(codecOut)
    /\ codecPc' = "decoded"
    /\ UNCHANGED << sessionVars, codecIn, codecOut >>

CodecNext ==
    \/ encodeStep
    \/ decodeStep

CodecSpec == CodecInit /\ [][CodecNext]_vars

\* ------------------------------------------------------------- properties

\* The positions of tree whose status is regular file: the entries the walk
\* of uploadDirectory enumerates as files.
RegularFiles(t) ==
    { i \in 1..Len(t) :
        \/ Universe[t[i].u].kind = "file"
        \/ Universe[t[i].u].kind = "symlink" /\ Universe[t[i].u].to = "file" }

\* The path of entry i of the walked tree relative to the root, as a string.
EntryPath(i) == JoinWith(Universe[tree[i].u].resolved, sep)

\* The makeRequest calls of the current operation that name the path p.
CallsFor(p) == { k \in 1..Len(calls) : calls[k].path = p }

\* The attempt on file i of the tree failed: the local file could not be
\* opened, or no request for it was accepted by the remote.
FileFailed(i) ==
    \/ ~tree[i].readable
    \/ \A k \in CallsFor(EntryPath(i)) : calls[k].outcome # "Ok"

InUploadDirectory == op.kind = "uploadDirectory" /\ pc \in {"walk", "done"}

UploadDirectoryDone == op.kind = "uploadDirectory" /\ pc = "done"

\* C1: when uploadDirectory finishes, every regular file the iterator
\* enumerated has been announced once and counted once, as succeeded or as
\* failed: successCount + failCount is the number of regular files.
C1_EveryFileCountedOnce ==
    UploadDirectoryDone =>
        /\ successCount + failCount = Cardinality(RegularFiles(tree))
        /\ Len(out) = Cardinality(RegularFiles(tree))
        /\ \A i \in RegularFiles(tree) :
              Cardinality({ k \in 1..Len(out) : out[k] = EntryPath(i) }) = 1

C1_Witness ==
    /\ UploadDirectoryDone
    /\ Cardinality(RegularFiles(tree)) = 3
    /\ Len(tree) > 3
    /\ successCount >= 1
    /\ failCount >= 1

\* C2: a failing file never stops the walk: at the end every regular file of
\* the tree has been attempted, the K files that failed (unreadable, rejected
\* or transport error) are the failCount and the other N - K the successCount;
\* during the walk the same holds of the entries already passed.
C2_FailureNeverStopsWalk ==
    InUploadDirectory =>
        LET passed == { i \in RegularFiles(tree) : i < idx }
            failed == { i \in passed : FileFailed(i) }
        IN  /\ pc = "done" => passed = RegularFiles(tree)
            /\ \A i \in passed :
                  /\ \E k \in 1..Len(out) : out[k] = EntryPath(i)
                  /\ tree[i].readable => Cardinality(CallsFor(EntryPath(i))) = 1
            /\ failCount = Cardinality(failed)
            /\ successCount = Cardinality(passed) - Cardinality(failed)

C2_Witness ==
    /\ UploadDirectoryDone
    /\ \E i, j, k \in RegularFiles(tree) :
          /\ i < j /\ j < k
          /\ ~FileFailed(i)
          /\ ~tree[j].readable
          /\ ~FileFailed(k)
    /\ successCount = 2
    /\ failCount = 1

\* C3: every upload reads the hash before it writes: each PUT is preceded by
\* a GET of the same path, and a PUT to a path that has content carries the
\* hash of that content and, the token being valid and the transport
\* working, is accepted.
C3_ReadHashThenWrite ==
    \A k \in 1..Len(calls) :
        calls[k].method = "PUT" =>
            /\ k > 1
            /\ calls[k - 1].method = "GET"
            /\ calls[k - 1].path = calls[k].path
            /\ calls[k].prior # NoSha =>
                  /\ calls[k].body.sha = calls[k].prior
                  /\ (credsValid /\ calls[k].outcome # "TransportError")
                        => calls[k].outcome = "Ok"

\* C4: deleteFile on a path without remote content sends no write request
\* and returns failure.
C4_DeleteOfAbsentPathWritesNothing ==
    (op.kind = "deleteFile" /\ Len(calls) >= 1 /\ calls[1].outcome = "NotFound") =>
        /\ \A k \in 1..Len(calls) : calls[k].method \notin {"PUT", "DELETE"}
        /\ pc = "done" => result = "false"

\* C5: a DELETE is never the first call of an operation: the call before it
\* is the GET of the same path, and the sha deleteFile puts in the DELETE is
\* the hash that GET returned (none when the GET returned none).
C5_DeleteOnlyAfterGet ==
    \A k \in 1..Len(calls) :
        calls[k].method = "DELETE" =>
            /\ k > 1
            /\ calls[k - 1].method = "GET"
            /\ calls[k - 1].endpoint = "contents"
            /\ calls[k - 1].path = calls[k].path
            /\ calls[k].data.sha =
                  IF calls[k - 1].outcome = "Ok" THEN calls[k - 1].prior ELSE EmptyStr

C5_Witness ==
    /\ op.kind = "deleteFile"
    /\ pc = "done"
    /\ Len(calls) = 2
    /\ calls[1].outcome = "Ok"
    /\ calls[2].method = "DELETE"
    /\ calls[2].data.sha \in Shas

\* The file name behind each remote path of the model.
PathNames ==
    { << JoinWith(Universe[i].resolved, s), filename(Universe[i].rel) >> :
        i \in 1..Len(Universe), s \in Seps }
    \cup { << filename(f.segs), filename(f.segs) >> : f \in LocalFiles }

\* The base64 text of the local file uploaded to remote path p.
ContentOfPath(p) ==
    base64_encode(FileBytes((CHOOSE x \in PathNames : x[1] = p)[2]))

\* C6: every PUT and DELETE put on the wire has a body with the commit
\* message of the operation, a PUT also the encoded content of the file and
\* a DELETE also the sha read before.
C6_EveryWriteCarriesMessage ==
    \A k \in 1..Len(calls) :
        calls[k].method \in {"PUT", "DELETE"} =>
            /\ "message" \in calls[k].body.members
            /\ calls[k].body.message = op.msg
            /\ calls[k].method = "PUT" =>
                  /\ "content" \in calls[k].body.members
                  /\ calls[k].body.content = ContentOfPath(calls[k].path)
            /\ calls[k].method = "DELETE" =>
                  /\ "sha" \in calls[k].body.members
                  /\ calls[k].body.sha = sha

\* C7: an upload whose local file cannot be opened returns false and makes
\* no request for that file, in uploadFile and in the walk of uploadDirectory.
C7_UnopenableFileNoRemoteCall ==
    /\ (op.kind = "uploadFile" /\ pc = "done" /\ ~op.readable) =>
          /\ result = "false"
          /\ calls = << >>
    /\ InUploadDirectory =>
          LET closed == { i \in RegularFiles(tree) : i < idx /\ ~tree[i].readable }
          IN  /\ \A i \in closed : CallsFor(EntryPath(i)) = {}
              /\ failCount >= Cardinality(closed)
              /\ (pc = "done" /\ closed # {}) => result = "false"

C7_Witness ==
    /\ UploadDirectoryDone
    /\ \E i \in RegularFiles(tree) : ~tree[i].readable
    /\ \E k \in 1..Len(calls) : calls[k].outcome = "Ok"
    /\ result = "false"

\* C8: uploadFile and deleteFile return true only when every step succeeded:
\* the local file was opened and every request was accepted by the remote.
C8_SingleFileOpsPropagateErrors ==
    (pc = "done" /\ op.kind \in {"uploadFile", "deleteFile"} /\ result = "true") =>
        /\ op.readable
        /\ calls # << >>
        /\ \A k \in 1..Len(calls) : calls[k].outcome = "Ok"

\* C9: when the getUser probe of initialize fails (transport error, or the
\* remote rejects the token), the process exits with a non-zero status and
\* no menu operation runs.
C9_FailedProbeIsFatal ==
    probe \notin {"none", "Ok"} =>
        /\ pc = "halted"
        /\ exitCode # 0
        /\ op.kind = "initialize"

\* C10: the session ends only by the exit choice or by the failed probe of
\* initialize: no other operation, failed or not, leaves the process halted.
C10_OnlyAuthFailureTerminates ==
    pc = "halted" =>
        \/ op.kind = "exit"
        \/ op.kind = "initialize" /\ probe # "Ok"

\* The calls of the current operation with method m that name the path p.
CallsWith(m, p) ==
    { k \in 1..Len(calls) : calls[k].method = m /\ calls[k].path = p }

\* C11: nothing is retried: within one operation a path gets at most one PUT
\* and at most one DELETE whatever the response was, uploadDirectory makes
\* no more PUTs than it has announced files, uploadFile makes at most one
\* call and deleteFile at most one GET and one DELETE.
C11_NoRetry ==
    /\ \A p \in RemotePaths :
          /\ Cardinality(CallsWith("PUT", p)) <= 1
          /\ Cardinality(CallsWith("DELETE", p)) <= 1
    /\ op.kind = "uploadDirectory" => Len(calls) <= Len(out)
    /\ op.kind = "uploadFile" => Len(calls) <= 1
    /\ op.kind = "deleteFile" =>
          /\ Len(calls) <= 2
          /\ Cardinality(CallsWith("GET", op.target)) <= 1

C11_Witness ==
    /\ op.kind = "uploadDirectory"
    /\ pc = "done"
    /\ \E k \in 1..Len(calls) :
          /\ calls[k].outcome = "TransportError"
          /\ CallsWith("PUT", calls[k].path) = {k}
    /\ \E k \in 1..Len(calls) :
          /\ calls[k].outcome = "Rejected"
          /\ CallsWith("PUT", calls[k].path) = {k}

\* C12: uploadDirectory over a tree whose files can all be read, with a
\* valid token, no transport failure and no content yet at any path it
\* writes, makes exactly one call per regular file: a PUT to the file's path
\* relative to the root whose body is {message, content} with the encoded
\* bytes of the file and the commit message given, without sha; it counts
\* every file as succeeded, none as failed, and returns true.
C12_TreeUploadToEmptyRemote ==
    ( /\ UploadDirectoryDone
      /\ credsValid
      /\ \A i \in RegularFiles(tree) : tree[i].readable
      /\ \A k \in 1..Len(calls) :
            calls[k].prior = NoSha /\ calls[k].outcome # "TransportError" )
    =>
        /\ Len(calls) = Cardinality(RegularFiles(tree))
        /\ \A i \in RegularFiles(tree) :
              \E k \in 1..Len(calls) :
                  /\ CallsFor(EntryPath(i)) = {k}
                  /\ calls[k].method = "PUT"
                  /\ calls[k].endpoint = "contents"
                  /\ calls[k].body.members = {"message", "content"}
                  /\ calls[k].body.content = ContentOfPath(EntryPath(i))
                  /\ calls[k].body.message = op.msg
                  /\ calls[k].outcome = "Ok"
        /\ successCount = Cardinality(RegularFiles(tree))
        /\ failCount = 0
        /\ result = "true"

C12_Witness ==
    /\ UploadDirectoryDone
    /\ credsValid
    /\ sep = "/"
    /\ op.msg = "init"
    /\ Len(calls) = 2
    /\ calls[1].path = "a.txt"
    /\ calls[1].body.content = "aGk="
    /\ calls[1].prior = NoSha
    /\ calls[2].path = "sub/b.bin"
    /\ calls[2].body.content = "AP8Qgw=="
    /\ calls[2].prior = NoSha
    /\ \A k \in 1..2 : calls[k].body.message = "init" /\ calls[k].outcome = "Ok"
    /\ successCount = 2
    /\ failCount = 0

\* The relative paths of the entries written with forward slashes.
ForwardSlashPaths ==
    { JoinWith(Universe[i].resolved, "/") : i \in 1..Len(Universe) }
    \cup { JoinWith(Universe[i].rel, "/") : i \in 1..Len(Universe) }

\* C13: every remote path uploadDirectory sends is the entry's relative path
\* written with forward slashes, whichever separator the platform uses.
C13_RemotePathUsesForwardSlashes ==
    op.kind = "uploadDirectory" =>
        \A k \in 1..Len(calls) : calls[k].path \in ForwardSlashPaths

\* The relative paths with a ".." segment: they leave the root.
EscapingPaths ==
    { JoinWith(Universe[i].resolved, s) :
        i \in { j \in 1..Len(Universe) :
                  \E n \in 1..Len(Universe[j].resolved) :
                      Universe[j].resolved[n] = ".." },
        s \in Seps }

\* C14: no PUT is ever made with a remote path that is empty or has a ".."
\* segment.
C14_NoEscapingRemotePath ==
    \A k \in 1..Len(calls) :
        calls[k].method = "PUT" =>
            /\ calls[k].path # EmptyStr
            /\ calls[k].path \notin EscapingPaths

\* The positions of tree that are regular files themselves, no symlinks.
PlainFiles(t) == { i \in 1..Len(t) : Universe[t[i].u].kind = "file" }

\* C15: the walk of uploadDirectory yields exactly the regular files of the
\* tree, each once: as many files are announced as the tree has regular
\* files, and no symlink is announced.
C15_WalkYieldsOnlyRegularFiles ==
    UploadDirectoryDone =>
        /\ Len(out) = Cardinality(PlainFiles(tree))
        /\ \A i \in 1..Len(tree) :
              Universe[tree[i].u].kind = "symlink" =>
                  \A k \in 1..Len(out) : out[k] # EntryPath(i)

\* C16: no operation is ever inside a remote call that does not return.
C16_NoCallBlocksForever == pc # "blocked"

\* C17: once cancellation has been requested during uploadDirectory, no
\* further file is announced and no further call is made.
C17_CancelStopsWalk ==
    [][(cancelRequested /\ pc = "walk") => (out' = out /\ calls' = calls)]_vars

\* C18: base64_encode gives standard base64 without line breaks (four
\* characters of the alphabet or '=' for every three bytes begun), and
\* decoding what it gives returns the bytes it was given.
C18_EncodeDecodeRoundTrip ==
    /\ codecPc \in {"encoded", "decoded"} =>
          /\ Len(codecOut) = 4 * ((Len(codecIn) + 2) \div 3)
          /\ \A i \in 1..Len(codecOut) :
                codecOut[i] = "=" \/ \E j \in 1..64 : B64Chars[j] = codecOut[i]
    /\ codecPc = "decoded" => codecBack = [ok |-> TRUE, bytes |-> codecIn]

C18_Witness ==
    /\ codecPc = "decoded"
    /\ codecIn = AllBytes
    /\ SubSeq(codecOut, 1, 4) = << "A", "A", "E", "C" >>
    /\ codecOut[Len(codecOut)] = "="
    /\ codecBack.ok
    /\ Len(codecBack.bytes) = Len(AllBytes)
    /\ codecBack.bytes[Len(AllBytes)] = Len(AllBytes) - 1

\* C19: uploadDirectory on a root that does not exist or is no directory
\* returns false to its caller: the process goes on, no call has been made
\* and no file counted.
C19_BadRootReturnsError ==
    (op.kind = "uploadDirectory" /\ op.target # "dir") =>
        /\ pc # "halted"
        /\ Len(calls) = 0
        /\ successCount = 0 /\ failCount = 0
        /\ pc = "done" => result = "false"

\* The response is a JSON document with the member name.
HasField(response, name) == response.kind = "object" /\ name \in response.members

\* C20: a write succeeds exactly when the response parses and has the
\* expected member: uploadFile returns true iff it made a PUT whose response
\* has "content", uploadDirectory counts as succeeded exactly the PUTs
\* whose response has "content", createRepository returns true iff the POST
\* response has "id".
C20_SuccessOnlyByExpectedField ==
    /\ (pc = "done" /\ op.kind = "uploadFile") =>
          (result = "true" <=>
              Len(calls) = 1 /\ HasField(calls[1].response, "content"))
    /\ (InUploadDirectory /\ pc = "done") =>
          /\ successCount =
                Cardinality({ k \in 1..Len(calls) :
                                HasField(calls[k].response, "content") })
          /\ failCount = Len(out) - successCount
    /\ (pc = "done" /\ op.kind = "createRepository") =>
          (result = "true" <=>
              Len(calls) = 1 /\ HasField(calls[1].response, "id"))

C20_Witness ==
    /\ pc = "done"
    /\ op.kind = "createRepository"
    /\ calls[1].response.kind = "object"
    /\ "id" \notin calls[1].response.members
    /\ result = "false"

\* C21: when the program has ended by the exit choice or by the failed
\* probe, curl_global_cleanup has run; and every makeRequest call that has
\* returned has freed its handle and its header list.
C21_TransportReleasedOnExit ==
    /\ (pc = "halted" /\ exitCode \in {0, 1}) => transport = "down"
    /\ \A k \in 1..Len(calls) : calls[k].outcome # "Hang" => calls[k].freed

\* C22: the first remote call of a run is the GET /user of initialize, and
\* the menu is shown and a menu operation makes a call only after
\* getUserInfo returned true to initialize.
C22_NoOperationBeforeProbe ==
    /\ pc = "start" => calls = << >>
    /\ op.kind = "initialize" =>
          /\ Len(calls) = 1
          /\ calls[1].method = "GET"
          /\ calls[1].endpoint = "user"
    /\ pc \in {"menu", "walk", "delete"} => probeReturned = "true"
    /\ (op.kind \notin {"none", "initialize"}) => probeReturned = "true"

C22_Witness ==
    /\ op.kind = "deleteFile"
    /\ pc = "done"
    /\ Len(calls) = 2
    /\ calls[2].method = "DELETE"
    /\ probeReturned = "true"

\* C23: uploadFile sends its PUT to the last segment of the local path,
\* whatever directory the file is in, so proj/a.txt and other/a.txt both go
\* to "a.txt"; uploadDirectory sends each PUT to the path of a regular file
\* of the tree relative to the root.
C23_SingleFileTargetsBasename ==
    /\ op.kind = "uploadFile" =>
          \A f \in LocalFiles :
              JoinWith(f.segs, sep) = op.target =>
                  \A k \in 1..Len(calls) :
                      /\ calls[k].method = "PUT"
                      /\ calls[k].path = f.segs[Len(f.segs)]
    /\ op.kind = "uploadDirectory" =>
          \A k \in 1..Len(calls) :
              /\ calls[k].method = "PUT"
              /\ \E i \in RegularFiles(tree) : calls[k].path = EntryPath(i)

C23_Witness ==
    /\ op.kind = "uploadFile"
    /\ op.target = JoinWith(<< "other", "a.txt" >>, sep)
    /\ pc = "done"
    /\ Len(calls) = 1
    /\ calls[1].path = "a.txt"
    /\ calls[1].prior # NoSha

====
